---- MODULE Spec2Model ----
(***************************************************************************)
(* A model of gaps.individual.Individual (src/gaps/individual.py) and of   *)
(* the `run` command of src/gaps/cli.py.                                   *)
(*                                                                         *)
(* A Piece is modelled by its id: the code reads nothing else of a piece   *)
(* but .id (and .image, which is a function of the piece).  Python's None  *)
(* is the empty tuple <<>> and a value v that may be None is <<v>>.        *)
(* Python floats are modelled by exact rationals [num, den] in lowest      *)
(* terms.  List indexes keep Python's base 0; a TLA+ sequence holds index  *)
(* k at position k + 1.                                                    *)
(***************************************************************************)
EXTENDS Integers, Sequences, FiniteSets

VARIABLES
    pieces,        \* the caller's piece list (argument `pieces` of __init__)
    rows,          \* the caller's grid shape
    columns,
    measures,      \* which dissimilarity table / scorer the run works with
    enum_by_value, \* interpreter: `x in EnumClass` matches raw values (Python >= 3.12)
    population,    \* the Individuals constructed so far, in order
    probe,         \* per Individual: what its calls did (observation only)
    ret,           \* outcome of the last call
    cli            \* the state of one invocation of the `run` command

vars == <<pieces, rows, columns, measures, enum_by_value, population, probe, ret, cli>>

----------------------------------------------------------------------------
(* Bounds of the model.                                                    *)

\* Largest number of pieces of a puzzle (rows * columns <= MaxPieces).
MaxPieces == 4
\* Largest number of pieces in the specification of the lookups.
MaxEdgePieces == 5
\* Largest number of pieces where several Individuals or in-place changes
\* multiply the arrangements.
SmallPieces == 3
\* Largest number of pieces, and Individuals built one after another, in the
\* specification of the caller's list.
MaxSharePieces == 2
NumShare == 3
\* The dissimilarity tables / scorers are numbered 0..MaxMeasures.
MaxMeasures == 2
\* Reads of the fitness property of one Individual.
MaxReads == 2
\* Raw (non-enum) fitness_type arguments are 0..MaxRawType.
MaxRawType == 4
\* Command line: --generations and --population range over -1..MaxCount.
MaxCount == 2

----------------------------------------------------------------------------
(* Values.                                                                 *)

None == <<>>
Some(v) == <<v>>

\* class FitnessType(Enum): a member is not equal to its raw value.
EnumMember(name, value) == [enum |-> name, value |-> value]
RawValue(value) == [enum |-> "", value |-> value]
Similarity == EnumMember("Similarity", 1)
Semantic == EnumMember("Semantic", 2)
Sum == EnumMember("Sum", 3)
FitnessType == {Similarity, Semantic, Sum}

FITNESS_FACTOR == 1000
SEMANTIC_FACTOR == 10

RECURSIVE GCD(_, _)
GCD(a, b) == IF b = 0 THEN a ELSE GCD(b, a % b)

\* Exact rationals, den > 0, in lowest terms.
Rat(n, d) == LET g == GCD(IF n < 0 THEN -n ELSE n, d) IN [num |-> n \div g, den |-> d \div g]
RatInt(n) == [num |-> n, den |-> 1]
RatAdd(x, y) == Rat(x.num * y.den + y.num * x.den, x.den * y.den)
\* x / y for y > 0
RatDiv(x, y) == Rat(x.num * y.den, x.den * y.num)
\* x < y for x, y > 0, with the common factors of the cross product taken out
RatLess(x, y) == LET gn == GCD(x.num, y.num)  gd == GCD(x.den, y.den) IN (x.num \div gn) * (y.den \div gd) < (y.num \div gn) * (x.den \div gd)

----------------------------------------------------------------------------
(* Collaborators outside src/.                                             *)

\* ImageAnalysis.get_dissimilarity(ids, orientation): a table of
\* non-negative scores keyed by the ordered pair and the orientation;
\* table 0 is the table of identical edges.
get_dissimilarity(ids, orientation) == (measures * (ids[1] + 2 * ids[2] + (IF orientation = "LR" THEN 1 ELSE 0))) % 5

\* utils.assemble_image(pieces, rows, columns): the pieces tiled row-major.
assemble_image(ps, r, c) == [i \in 1..r |-> [j \in 1..c |-> ps[(i - 1) * c + j]]]

RECURSIVE WeightedSum(_, _, _, _)
WeightedSum(image, r, c, k) == IF k = 0 THEN 0 ELSE LET i == ((k - 1) \div c) + 1  j == ((k - 1) % c) + 1 IN (k + i) * image[i][j] + WeightedSum(image, r, c, k - 1)

\* sem_consistency.compute_sem_consistency(image, shape): an opaque,
\* deterministic, non-negative score of the assembled image.
compute_sem_consistency(image, shape) == (measures * WeightedSum(image, shape[1], shape[2], shape[1] * shape[2])) % 7

----------------------------------------------------------------------------
(* Individual.                                                             *)

\* The sequences that hold each element of S once.
RECURSIVE Orders(_)
Orders(S) == IF S = {} THEN {<<>>} ELSE UNION {{<<x>> \o p : p \in Orders(S \ {x})} : x \in S}

\* The orders np.random.shuffle can leave the indexes of n elements in.
IndexPermutations(n) == Orders(1..n)

\* (a draw with replacement: an element may come twice)
ShuffleBug(ps) == {[k \in 1..Len(ps) |-> ps[f[k]]] : f \in [1..Len(ps) -> 1..Len(ps)]}

\* np.random.shuffle(self.pieces): any permutation of the list.
Shuffle(ps) == {[k \in 1..Len(ps) |-> ps[f[k]]] : f \in IndexPermutations(Len(ps))}

\* `fitness_type in FitnessType` (EnumMeta.__contains__): "True" for a
\* member; for a non-member "TypeError" before Python 3.12, and from 3.12 on
\* whether the value is the value of a member.
EnumContains(ft) ==
    IF ft \in FitnessType THEN "True"
    ELSE IF ~enum_by_value THEN "TypeError"
    ELSE IF \E m \in FitnessType : m.value = ft.value THEN "True" ELSE "False"

\* (the mapping taken from the caller's list, before the shuffle)
PieceMappingStale(ps) == [id \in {ps[k] : k \in 1..Len(ps)} |-> (CHOOSE k \in 1..Len(pieces) : pieces[k] = id) - 1]

\* The dict comprehension {piece.id: index for index, piece in enumerate(pieces)}:
\* a later index overwrites an earlier one of the same id.
PieceMapping(ps) == [id \in {ps[k] : k \in 1..Len(ps)} |-> (CHOOSE k \in 1..Len(ps) : ps[k] = id /\ \A m \in (k + 1)..Len(ps) : ps[m] # id) - 1]

\* What is recorded of an Individual's calls, and of the last call.
NoProbe == [shuffle |-> FALSE, sim_runs |-> 0, sem_runs |-> 0, reads |-> 0, first |-> None, at_first |-> <<>>, touched |-> FALSE]
NoRet == [op |-> "", self |-> 0, args |-> <<>>, raised |-> "", value |-> None]
Returned(op, i, args, v) == [op |-> op, self |-> i, args |-> args, raised |-> "", value |-> v]
Raised(op, i, args, e) == [op |-> op, self |-> i, args |-> args, raised |-> e, value |-> None]

\* An uncaught exception ends the program: cli.run has no handler.
Running == ret.raised = ""

\* (self.pieces = pieces, no copy: the shuffle works on the caller's list)
CallerListAliased(ps, own) == own

\* `self.pieces = pieces[:]`: the Individual owns a copy, so the caller's
\* list after __init__ is the list ps it passed, whatever became of own.
CallerList(ps, own) == ps

\* Individual.__init__(pieces, rows, columns, shuffle, fitness_type)
Construct(max, types, shuffle, fitness_type) ==
    /\ Running
    /\ Len(population) < max
    /\ fitness_type \in types
    /\ \E own \in (IF shuffle THEN Shuffle(pieces) ELSE {pieces}) :
         LET self == [pieces |-> own, rows |-> rows, columns |-> columns, _fitness |-> None, fitness_type |-> fitness_type, _piece_mapping |-> PieceMapping(own)]
             i == Len(population) + 1
             isin == EnumContains(fitness_type)
         IN  /\ pieces' = CallerList(pieces, own)
             /\ IF isin = "True"
                THEN /\ population' = Append(population, self)
                     /\ probe' = Append(probe, [NoProbe EXCEPT !.shuffle = shuffle])
                     /\ ret' = Returned("__init__", i, <<>>, None)
                ELSE /\ ret' = Raised("__init__", i, <<fitness_type>>, IF isin = "False" THEN "ValueError" ELSE "TypeError")
                     /\ UNCHANGED <<population, probe>>
    /\ UNCHANGED <<rows, columns, measures, enum_by_value, cli>>

\* Individual.__getitem__(key): row `key` of the grid, a slice of pieces.
__getitem__(self, key) == SubSeq(self.pieces, key * self.columns + 1, (key + 1) * self.columns)

\* The first loop of _similarity, flattened: step k is i = k // (columns - 1),
\* j = k % (columns - 1).
RECURSIVE RowPairs(_, _, _)
RowPairs(self, k, fitness_value) ==
    IF k >= self.rows * (self.columns - 1) THEN fitness_value
    ELSE LET i == k \div (self.columns - 1)
             j == k % (self.columns - 1)
             ids == <<__getitem__(self, i)[j + 1], __getitem__(self, i)[j + 2]>>
         IN  RowPairs(self, k + 1, RatAdd(fitness_value, RatInt(get_dissimilarity(ids, "LR"))))

\* The second loop of _similarity, flattened: step k is i = k // columns,
\* j = k % columns.
RECURSIVE ColumnPairsSwapped(_, _, _)
ColumnPairsSwapped(self, k, fitness_value) ==
    IF k >= (self.rows - 1) * self.columns THEN fitness_value
    ELSE LET i == k \div self.columns
             j == k % self.columns
             ids == <<__getitem__(self, i + 1)[j + 1], __getitem__(self, i)[j + 1]>>
         IN  ColumnPairsSwapped(self, k + 1, RatAdd(fitness_value, RatInt(get_dissimilarity(ids, "TD"))))

RECURSIVE ColumnPairs(_, _, _)
ColumnPairs(self, k, fitness_value) ==
    IF k >= (self.rows - 1) * self.columns THEN fitness_value
    ELSE LET i == k \div self.columns
             j == k % self.columns
             ids == <<__getitem__(self, i)[j + 1], __getitem__(self, i + 1)[j + 1]>>
         IN  ColumnPairs(self, k + 1, RatAdd(fitness_value, RatInt(get_dissimilarity(ids, "TD"))))

\* (the vertical pairs taken bottom id first)
_similarityBottomFirst(self) == RatDiv(RatInt(FITNESS_FACTOR), ColumnPairsSwapped(self, 0, RowPairs(self, 0, RatDiv(RatInt(1), RatInt(FITNESS_FACTOR)))))

\* Individual._similarity()
_similarity(self) == RatDiv(RatInt(FITNESS_FACTOR), ColumnPairs(self, 0, RowPairs(self, 0, RatDiv(RatInt(1), RatInt(FITNESS_FACTOR)))))

\* Individual.to_image()
to_image(self) == assemble_image(self.pieces, self.rows, self.columns)

\* Individual._semantic_consistency()
_semantic_consistency(self) == RatInt(compute_sem_consistency(to_image(self), <<self.rows, self.columns>>) * SEMANTIC_FACTOR)

\* (the Sum branch forgetting the semantic term)
EvaluateSumForgetful(self) ==
    IF self.fitness_type = Similarity THEN _similarity(self)
    ELSE IF self.fitness_type = Semantic THEN _semantic_consistency(self)
    ELSE _similarity(self)

\* The branches of the fitness property for the three members.
Evaluate(self) ==
    IF self.fitness_type = Similarity THEN _similarity(self)
    ELSE IF self.fitness_type = Semantic THEN _semantic_consistency(self)
    ELSE RatAdd(_similarity(self), _semantic_consistency(self))

\* (no cache: every read evaluates)
NeedsEvaluationAlways(self) == TRUE

\* `if self._fitness is None`
NeedsEvaluation(self) == self._fitness = None

\* The fitness property, read on Individual i.  The scorer is outside the
\* program and may raise; _similarity() has then already run for Sum.
Fitness(i, maxReads) ==
    /\ Running
    /\ i \in 1..Len(population)
    /\ probe[i].reads < maxReads
    /\ LET self == population[i]
           uses_sim == self.fitness_type \in {Similarity, Sum}
           uses_sem == self.fitness_type \in {Semantic, Sum}
           read == [probe[i] EXCEPT !.reads = @ + 1]
       IN  IF ~NeedsEvaluation(self)
           THEN /\ ret' = Returned("fitness", i, <<>>, self._fitness)
                /\ probe' = [probe EXCEPT ![i] = read]
                /\ UNCHANGED population
           ELSE IF self.fitness_type \notin FitnessType
           THEN /\ ret' = Raised("fitness", i, <<>>, "NotImplementedError")
                /\ probe' = [probe EXCEPT ![i] = read]
                /\ UNCHANGED population
           ELSE \E scorer_ok \in (IF uses_sem THEN BOOLEAN ELSE {TRUE}) :
                LET ran == [read EXCEPT !.sim_runs = @ + (IF uses_sim THEN 1 ELSE 0), !.sem_runs = @ + (IF uses_sem THEN 1 ELSE 0)]
                IN  IF scorer_ok
                    THEN /\ population' = [population EXCEPT ![i]._fitness = Some(Evaluate(self))]
                         /\ ret' = Returned("fitness", i, <<>>, Some(Evaluate(self)))
                         /\ probe' = [probe EXCEPT ![i] = IF ran.first = None THEN [ran EXCEPT !.first = Some(Evaluate(self)), !.at_first = self.pieces] ELSE ran]
                    ELSE /\ ret' = Raised("fitness", i, <<>>, "ScorerError")
                         /\ probe' = [probe EXCEPT ![i] = ran]
                         /\ UNCHANGED population
    /\ UNCHANGED <<pieces, rows, columns, measures, enum_by_value, cli>>

\* Individual.piece_by_id(identifier)
piece_by_id(self, identifier) == self.pieces[self._piece_mapping[identifier] + 1]

\* (the right-hand test of edge without the modulo: wraps to the next row)
edgeWrapping(self, piece_id, orientation) ==
    LET edge_index == self._piece_mapping[piece_id]
    IN  IF orientation = "T" /\ edge_index >= self.columns THEN Some(self.pieces[edge_index - self.columns + 1])
        ELSE IF orientation = "R" /\ edge_index < self.rows * self.columns - 1 THEN Some(self.pieces[edge_index + 1 + 1])
        ELSE IF orientation = "D" /\ edge_index < (self.rows - 1) * self.columns THEN Some(self.pieces[edge_index + self.columns + 1])
        ELSE IF orientation = "L" /\ edge_index % self.columns > 0 THEN Some(self.pieces[edge_index - 1 + 1])
        ELSE None

\* Individual.edge(piece_id, orientation); falling off the end returns None.
edge(self, piece_id, orientation) ==
    LET edge_index == self._piece_mapping[piece_id]
    IN  IF orientation = "T" /\ edge_index >= self.columns THEN Some(self.pieces[edge_index - self.columns + 1])
        ELSE IF orientation = "R" /\ edge_index % self.columns < self.columns - 1 THEN Some(self.pieces[edge_index + 1 + 1])
        ELSE IF orientation = "D" /\ edge_index < (self.rows - 1) * self.columns THEN Some(self.pieces[edge_index + self.columns + 1])
        ELSE IF orientation = "L" /\ edge_index % self.columns > 0 THEN Some(self.pieces[edge_index - 1 + 1])
        ELSE None

Orientations == {"T", "R", "D", "L"}

\* A call of edge on Individual i.
Edge(i, piece_id, orientation) ==
    /\ Running
    /\ i \in 1..Len(population)
    /\ piece_id \in DOMAIN population[i]._piece_mapping
    /\ orientation \in Orientations
    /\ ret' = Returned("edge", i, <<piece_id, orientation>>, edge(population[i], piece_id, orientation))
    /\ UNCHANGED <<pieces, rows, columns, measures, enum_by_value, population, probe, cli>>

\* A call of piece_by_id on Individual i.
PieceById(i, identifier) ==
    /\ Running
    /\ i \in 1..Len(population)
    /\ identifier \in DOMAIN population[i]._piece_mapping
    /\ ret' = Returned("piece_by_id", i, <<identifier>>, Some(piece_by_id(population[i], identifier)))
    /\ UNCHANGED <<pieces, rows, columns, measures, enum_by_value, population, probe, cli>>

\* `pieces` is a public list attribute: a caller's in-place exchange of the
\* pieces at indexes a and b of Individual i.  Nothing else of the
\* Individual is written.
SwapPieces(i, a, b) ==
    /\ Running
    /\ i \in 1..Len(population)
    /\ a \in 1..Len(population[i].pieces)
    /\ b \in 1..Len(population[i].pieces)
    /\ a < b
    /\ LET own == population[i].pieces
       IN  population' = [population EXCEPT ![i].pieces = [own EXCEPT ![a] = own[b], ![b] = own[a]]]
    /\ probe' = [probe EXCEPT ![i].touched = TRUE]
    /\ ret' = Returned("swap", i, <<>>, None)
    /\ UNCHANGED <<pieces, rows, columns, measures, enum_by_value, cli>>

----------------------------------------------------------------------------
(* The run command of cli.py.                                              *)

IdleCli == [pc |-> "idle", generations |-> 0, population |-> 0, fitness_type |-> 0, args |-> <<>>, dirs |-> FALSE, ga |-> None, evolved |-> FALSE, written |-> FALSE, error |-> ""]

\* (zero accepted)
_validate_non_negative_integer(value) == IF value < 0 THEN None ELSE Some(value)

\* _validate_positive_integer(_context, _param, value): None stands for
\* raising click.BadParameter.
_validate_positive_integer(value) == IF value <= 0 THEN None ELSE Some(value)

\* FitnessType(value): the member of that value; None stands for ValueError.
FitnessTypeOf(value) == IF \E m \in FitnessType : m.value = value THEN Some(CHOOSE m \in FitnessType : m.value = value) ELSE None

\* click parses the options and runs their callbacks before the body of run.
ParseOptions ==
    /\ cli.pc = "invoke"
    /\ LET g == _validate_positive_integer(cli.generations)
           p == _validate_positive_integer(cli.population)
       IN  IF g = None \/ p = None
           THEN cli' = [cli EXCEPT !.pc = "usage_error", !.error = "BadParameter"]
           ELSE cli' = [cli EXCEPT !.pc = "body", !.args = <<g[1], p[1], cli.fitness_type>>]
    /\ UNCHANGED <<pieces, rows, columns, measures, enum_by_value, population, probe, ret>>

\* run, up to os.makedirs(solution_path, exist_ok=True)
MakeDirs ==
    /\ cli.pc = "body"
    /\ cli' = [cli EXCEPT !.pc = "dirs", !.dirs = TRUE]
    /\ UNCHANGED <<pieces, rows, columns, measures, enum_by_value, population, probe, ret>>

\* ga = GeneticAlgorithm(..., fitness_type=FitnessType(fitness_type)): the
\* argument is evaluated before the constructor is entered.
ConstructGA ==
    /\ cli.pc = "dirs"
    /\ LET ft == FitnessTypeOf(cli.args[3])
       IN  IF ft = None
           THEN cli' = [cli EXCEPT !.pc = "error", !.error = "ValueError"]
           ELSE cli' = [cli EXCEPT !.pc = "ga", !.ga = Some([population_size |-> cli.args[2], generations |-> cli.args[1], fitness_type |-> ft[1]])]
    /\ UNCHANGED <<pieces, rows, columns, measures, enum_by_value, population, probe, ret>>

\* result, fittest_list = ga.start_evolution(debug)
StartEvolution ==
    /\ cli.pc = "ga"
    /\ cli' = [cli EXCEPT !.pc = "evolved", !.evolved = TRUE]
    /\ UNCHANGED <<pieces, rows, columns, measures, enum_by_value, population, probe, ret>>

\* cv.imwrite(... '_solution.jpg' ...) and the per-generation images
WriteSolution ==
    /\ cli.pc = "evolved"
    /\ cli' = [cli EXCEPT !.pc = "done", !.written = TRUE]
    /\ UNCHANGED <<pieces, rows, columns, measures, enum_by_value, population, probe, ret>>

----------------------------------------------------------------------------
(* Specifications.                                                         *)

\* The caller's lists of n pieces with pairwise distinct ids: the ids
\* 0..n-1 in order (utils.flatten_image), and sparse ids in falling order.
PieceLists(n) == {[k \in 1..n |-> k - 1], [k \in 1..n |-> 2 * (n - k) + 1]}

RawTypes == {RawValue(v) : v \in 0..MaxRawType}

InitWith(maxPieces, lists, measureSet, byValueSet) ==
    /\ \E r, c \in 1..maxPieces :
         /\ r * c <= maxPieces
         /\ rows = r
         /\ columns = c
         /\ pieces \in (IF lists = "any order" THEN Shuffle([k \in 1..(r * c) |-> k - 1]) ELSE IF lists = "dense" THEN {[k \in 1..(r * c) |-> k - 1]} ELSE PieceLists(r * c))
    /\ measures \in measureSet
    /\ enum_by_value \in byValueSet
    /\ population = <<>>
    /\ probe = <<>>
    /\ ret = NoRet
    /\ cli = IdleCli

\* One Individual: construction with any argument, and reads of its fitness.
Init == InitWith(MaxPieces, "two", 0..MaxMeasures, BOOLEAN)
Next ==
    \/ \E shuffle \in BOOLEAN, ft \in FitnessType \cup RawTypes : Construct(1, FitnessType \cup RawTypes, shuffle, ft)
    \/ Fitness(1, MaxReads)
Spec == Init /\ [][Next]_vars

\* One Individual and its lookups.
InitEdge == InitWith(MaxEdgePieces, "two", {0}, {FALSE})
NextEdge ==
    \/ \E shuffle \in BOOLEAN : Construct(1, {Similarity}, shuffle, Similarity)
    \/ \E id \in 0..(2 * MaxEdgePieces), o \in Orientations : Edge(1, id, o)
    \/ \E id \in 0..(2 * MaxEdgePieces) : PieceById(1, id)
SpecEdge == InitEdge /\ [][NextEdge]_vars

\* One Individual whose piece list a caller changes in place.
InitMut == InitWith(SmallPieces, "dense", {1}, {FALSE})
NextMut ==
    \/ \E shuffle \in BOOLEAN, ft \in FitnessType : Construct(1, FitnessType, shuffle, ft)
    \/ Fitness(1, MaxReads)
    \/ \E a, b \in 1..(SmallPieces + 1) : SwapPieces(1, a, b)
SpecMut == InitMut /\ [][NextMut]_vars

\* One Individual per member of FitnessType, built unshuffled one after
\* another from the same list, which may be in any order.
InitPop == InitWith(SmallPieces, "any order", 0..MaxMeasures, {FALSE})
NextPop ==
    \/ \E ft \in FitnessType : Construct(Cardinality(FitnessType), FitnessType, FALSE, ft)
    \/ \E i \in 1..Cardinality(FitnessType) : Fitness(i, 1)
SpecPop == InitPop /\ [][NextPop]_vars

\* Individuals built one after another from the caller's list.
InitShare == InitWith(MaxSharePieces, "two", {0}, {FALSE})
NextShare == \E shuffle \in BOOLEAN : Construct(NumShare, {Similarity}, shuffle, Similarity)
SpecShare == InitShare /\ [][NextShare]_vars

\* One invocation of `gaps run`.
InitCli ==
    /\ pieces = <<0>>
    /\ rows = 1
    /\ columns = 1
    /\ measures = 0
    /\ enum_by_value = FALSE
    /\ population = <<>>
    /\ probe = <<>>
    /\ ret = NoRet
    /\ \E g, p \in (-1)..MaxCount, ft \in 0..MaxRawType : cli = [IdleCli EXCEPT !.pc = "invoke", !.generations = g, !.population = p, !.fitness_type = ft]
NextCli == ParseOptions \/ MakeDirs \/ ConstructGA \/ StartEvolution \/ WriteSolution
SpecCli == InitCli /\ [][NextCli]_vars

----------------------------------------------------------------------------
(* Properties.                                                             *)

\* The piece in cell (r, c) of an arrangement with c_ columns, base 0.
Cell(arrangement, c_, r, c) == arrangement[r * c_ + c + 1]

\* C1: an Individual constructed from a list of pairwise distinct ids, with
\* shuffle set or not, holds each id of the list exactly once and nothing
\* else: its pieces are a permutation of the input.
C1_Permutation ==
    \A i \in 1..Len(population) :
        LET own == population[i].pieces
        IN  /\ Len(own) = Len(pieces)
            /\ Len(own) = rows * columns
            /\ \A k \in 1..Len(pieces) : Cardinality({m \in 1..Len(own) : own[m] = pieces[k]}) = 1

\* C1's case: a shuffled Individual of a 2 x 2 puzzle in another order than
\* the caller's.
C1_Witness ==
    /\ Len(population) = 1
    /\ probe[1].shuffle
    /\ rows = 2 /\ columns = 2
    /\ population[1].pieces # pieces

\* The neighbour of piece_id on a side, from the cell the piece sits in.
Neighbour(self, piece_id, side) ==
    LET k == CHOOSE k \in 0..(Len(self.pieces) - 1) : self.pieces[k + 1] = piece_id
        r == k \div self.columns
        c == k % self.columns
    IN  IF side = "T" THEN (IF r = 0 THEN None ELSE Some(Cell(self.pieces, self.columns, r - 1, c)))
        ELSE IF side = "R" THEN (IF c = self.columns - 1 THEN None ELSE Some(Cell(self.pieces, self.columns, r, c + 1)))
        ELSE IF side = "D" THEN (IF r = self.rows - 1 THEN None ELSE Some(Cell(self.pieces, self.columns, r + 1, c)))
        ELSE (IF c = 0 THEN None ELSE Some(Cell(self.pieces, self.columns, r, c - 1)))

\* C2: edge(piece_id, side) returns the id in the cell above, right of,
\* below or left of the piece's cell, and None exactly on the first row
\* (T), last column (R), last row (D), first column (L); it never wraps
\* around a row end.
C2_Edge ==
    ret.op = "edge" => ret.value = Neighbour(population[ret.self], ret.args[1], ret.args[2])

\* C2's case: the right side of a piece in the last column of a row that is
\* not the last row, where index + 1 is the first cell of the next row.
C2_Witness ==
    /\ ret.op = "edge"
    /\ rows >= 2 /\ columns >= 2
    /\ ret.args[2] = "R"
    /\ population[1]._piece_mapping[ret.args[1]] = columns - 1
    /\ ret.value = None

\* C9: after construction the mapping takes every id held to the index the
\* piece sits at, has one entry per piece, its indexes cover
\* 0..rows*columns-1, and piece_by_id(id) returns the piece of that id.
C9_Mapping ==
    /\ \A i \in 1..Len(population) :
        LET self == population[i]
        IN  /\ DOMAIN self._piece_mapping = {self.pieces[k] : k \in 1..Len(self.pieces)}
            /\ Cardinality(DOMAIN self._piece_mapping) = rows * columns
            /\ \A k \in 1..Len(self.pieces) : self._piece_mapping[self.pieces[k]] = k - 1
            /\ {self._piece_mapping[id] : id \in DOMAIN self._piece_mapping} = 0..(rows * columns - 1)
    /\ ret.op = "piece_by_id" => ret.value = Some(ret.args[1])

\* C9's case: a lookup in a shuffled Individual whose order differs from
\* the caller's.
C9_Witness ==
    /\ ret.op = "piece_by_id"
    /\ probe[1].shuffle
    /\ Len(pieces) >= 3
    /\ population[1].pieces # pieces
    /\ population[1].pieces[population[1]._piece_mapping[ret.args[1]] + 1] # pieces[population[1]._piece_mapping[ret.args[1]] + 1]

\* C3 as stated: every value the fitness property returns is the fitness of
\* the arrangement the Individual holds at that read, also after its piece
\* order has changed.
C3_CurrentArrangement ==
    (ret.op = "fitness" /\ ret.raised = "") => ret.value = Some(Evaluate(population[ret.self]))

\* C3, amended: every value the fitness property returns is the fitness of
\* the arrangement the Individual held at its first read, which is its
\* current arrangement as long as the piece order has not been changed in
\* place; two reads return the same value.
C3_FirstArrangement ==
    (ret.op = "fitness" /\ ret.raised = "") =>
        /\ ret.value = Some(Evaluate([population[ret.self] EXCEPT !.pieces = probe[ret.self].at_first]))
        /\ ~probe[ret.self].touched => ret.value = Some(Evaluate(population[ret.self]))

\* C3's case: a second read, after the piece order was changed in place to
\* an arrangement of another fitness.
C3_Witness ==
    /\ ret.op = "fitness" /\ ret.raised = ""
    /\ probe[1].reads = 2
    /\ probe[1].touched
    /\ population[1].pieces # probe[1].at_first
    /\ Evaluate(population[1]) # ret.value[1]

AdjacentPairs(r_, c_) == {<<r, c, "LR">> : r \in 0..(r_ - 1), c \in 0..(c_ - 2)} \cup {<<r, c, "TD">> : r \in 0..(r_ - 2), c \in 0..(c_ - 1)}

\* The dissimilarity term of one adjacent pair: left id first for LR, top
\* id first for TD.
PairTerm(arrangement, c_, x) ==
    IF x[3] = "LR" THEN get_dissimilarity(<<Cell(arrangement, c_, x[1], x[2]), Cell(arrangement, c_, x[1], x[2] + 1)>>, "LR")
    ELSE get_dissimilarity(<<Cell(arrangement, c_, x[1], x[2]), Cell(arrangement, c_, x[1] + 1, x[2])>>, "TD")

RECURSIVE PairSum(_, _, _)
PairSum(arrangement, c_, P) == IF P = {} THEN 0 ELSE LET x == CHOOSE x \in P : TRUE IN PairTerm(arrangement, c_, x) + PairSum(arrangement, c_, P \ {x})

\* S of an arrangement: one term per adjacent pair.
TotalDissimilarity(arrangement, r_, c_) == PairSum(arrangement, c_, AdjacentPairs(r_, c_))

C6_Sum ==
    \A i, j, k \in 1..Len(population) :
        ( /\ population[i].fitness_type = Similarity
          /\ population[j].fitness_type = Semantic
          /\ population[k].fitness_type = Sum
          /\ population[i].pieces = population[k].pieces
          /\ population[j].pieces = population[k].pieces
          /\ population[i]._fitness # None
          /\ population[j]._fitness # None
          /\ population[k]._fitness # None )
        => /\ population[k]._fitness[1] = RatAdd(population[i]._fitness[1], population[j]._fitness[1])
           /\ population[j]._fitness[1] = RatInt(10 * compute_sem_consistency(assemble_image(population[k].pieces, rows, columns), <<rows, columns>>))

\* C6's case: three Individuals of one arrangement, one per fitness type,
\* all read, with a non-zero dissimilarity sum and a non-zero score.
C6_Witness ==
    /\ Len(population) = 3
    /\ {population[i].fitness_type : i \in 1..3} = FitnessType
    /\ \A i \in 1..3 : population[i]._fitness # None
    /\ \E j \in 1..3 : population[j].fitness_type = Semantic /\ population[j]._fitness[1].num > 0
    /\ TotalDissimilarity(population[1].pieces, rows, columns) > 0

\* C7 as stated: no Individual comes to exist with a fitness type that is
\* not a member of FitnessType, and no read of fitness meets one.
C7_RejectedAtConstruction ==
    /\ \A i \in 1..Len(population) : population[i].fitness_type \in FitnessType
    /\ ret.raised # "NotImplementedError"

\* C8: a --generations or --population value <= 0 is rejected with a
\* parameter error before the body of run: no GeneticAlgorithm, no
\* start_evolution, no solution file; positive values pass unchanged.
C8_PositiveCounts ==
    /\ (cli.generations <= 0 \/ cli.population <= 0) =>
        /\ cli.pc \in {"invoke", "usage_error"}
        /\ cli.ga = None /\ ~cli.evolved /\ ~cli.written /\ ~cli.dirs
    /\ cli.pc = "usage_error" => (cli.error = "BadParameter" /\ (cli.generations <= 0 \/ cli.population <= 0))
    /\ cli.pc \in {"body", "dirs", "ga", "evolved", "done", "error"} => (cli.args[1] = cli.generations /\ cli.args[2] = cli.population)
    /\ cli.ga # None => (cli.ga[1].generations = cli.generations /\ cli.ga[1].population_size = cli.population)

\* C8's case: a zero population with a positive generation count, rejected.
C8_Witness ==
    /\ cli.pc = "usage_error"
    /\ cli.population = 0
    /\ cli.generations > 0

\* C10: construction, shuffled or not, leaves the caller's list as it was,
\* so every Individual built from it unshuffled has the original order,
\* whatever was built before it.
C10_CallerList ==
    /\ [](\A i \in 1..Len(population) : ~probe[i].shuffle => population[i].pieces = pieces)
    /\ [][pieces' = pieces]_vars

\* C10's case: an unshuffled Individual built after a shuffled one whose
\* order differs from the caller's.
C10_Witness ==
    /\ Len(population) >= 2
    /\ probe[1].shuffle
    /\ population[1].pieces # pieces
    /\ ~probe[2].shuffle
    /\ population[2].pieces = pieces

====
